---- MODULE Spec2Model ----
(***************************************************************************)
(* Model of the MATLAB -> NumPy conversion scripts:                        *)
(*   scripts/convert_pinknoise_to_npz.py  flatten_value, convert_file and  *)
(*                                        the single-file main             *)
(*   scripts/convert_expd_to_npz.py       the batch main                   *)
(* Python strings are TLA+ strings, dicts are functions (flat, shapes, the *)
(* file system) or sequences of <<key, value>> pairs where the iteration   *)
(* order matters (a loaded record), lists are sequences.                   *)
(***************************************************************************)
EXTENDS Integers, Sequences, FiniteSets, TLC

VARIABLES
    \* ---- the two command line programs and the file system ----
    mode,        \* "batch" (convert_expd_to_npz) or "single" (convert_pinknoise_to_npz)
    args,        \* parsed command line: force, dataset_name, input
    input_exists,\* whether args.input / args.input_dir exists
    listing,     \* what input_dir.glob(pattern) yields, in directory order
    fs,          \* destination directory: file name -> content, for the files that exist
    fs0,         \* the destination directory when the run started
    pc,          \* "start", "loop", "done", "failed", or "off" (no program run)
    exc,         \* the exception that ended the run, "none" otherwise
    files,       \* batch: sorted list of matched files
    pos,         \* batch: number of loop iterations begun (for file_path in files)
    converted,   \* batch counter
    skipped,     \* batch counter
    stdout,      \* the lines printed so far
    clock,       \* datetime.now(), a counter
    last_cf,     \* the last convert_file call: its arguments, outcome and the fs before it
    handled,     \* batch: the files the loop has reached, in order, and what it did
    \* ---- flatten_value / convert_file called directly ----
    h_pc,        \* "off", "idle", "session", "raised", "converted"
    flat,        \* the flat mapping handed to flatten_value
    shapes,      \* the shape mapping handed to flatten_value
    ncalls,      \* number of flatten_value calls made on flat/shapes
    last_fv,     \* the last flatten_value call: arguments and mappings before it
    cv           \* the last direct convert_file call: record, outcome, files written

vars == <<mode, args, input_exists, listing, fs, fs0, pc, exc, files, pos,
          converted, skipped, stdout, clock, last_cf, handled,
          h_pc, flat, shapes, ncalls, last_fv, cv>>

sys_vars == <<mode, args, input_exists, listing, fs, fs0, pc, exc, files, pos,
              converted, skipped, stdout, clock, last_cf, handled>>

h_vars == <<h_pc, flat, shapes, ncalls, last_fv, cv>>

-----------------------------------------------------------------------------
(* Bounds of the model *)

\* at most this many files are matched by the glob
MaxFiles == 3
\* at most this many flatten_value calls are made on one pair of mappings
MaxCalls == 2
\* at most this many top-level keys in a record handed to convert_file directly
MaxTop == 2

-----------------------------------------------------------------------------
(* Python strings *)

Digits == <<"0", "1", "2", "3", "4", "5", "6", "7", "8", "9">>

\* str(idx) for a non-negative integer
RECURSIVE str_int(_)
str_int(n) ==
    IF n < 10 THEN Digits[n + 1]
    ELSE str_int(n \div 10) \o Digits[(n % 10) + 1]

\* s.startswith(p)
startswith(s, p) == Len(s) >= Len(p) /\ SubSeq(s, 1, Len(p)) = p

\* the characters of the model in code point order
CodeOrder == "-.0123456789ABCDEFGHIJKLMNOPQRSTUVWXYZ_abcdefghijklmnopqrstuvwxyz"

\* the position of each character in CodeOrder
OrdTable ==
    [c \in {SubSeq(CodeOrder, i, i) : i \in 1..Len(CodeOrder)} |->
        CHOOSE i \in 1..Len(CodeOrder) : SubSeq(CodeOrder, i, i) = c]

\* ord(c), up to an order-preserving renumbering
ord(c) == OrdTable[c]

\* s < t for Python strings: code point order, a proper prefix sorts first
RECURSIVE str_lt_from(_, _, _)
str_lt_from(s, t, i) ==
    IF i > Len(t) THEN FALSE
    ELSE IF i > Len(s) THEN TRUE
    ELSE LET a == ord(SubSeq(s, i, i))
             b == ord(SubSeq(t, i, i))
         IN IF a < b THEN TRUE
            ELSE IF a > b THEN FALSE
            ELSE str_lt_from(s, t, i + 1)

str_lt(s, t) == str_lt_from(s, t, 1)

\* s.rfind("."), as a 1-based position, 0 when there is no dot
RECURSIVE rfind_dot_from(_, _)
rfind_dot_from(s, i) ==
    IF i = 0 THEN 0
    ELSE IF SubSeq(s, i, i) = "." THEN i
    ELSE rfind_dot_from(s, i - 1)

rfind_dot(s) == rfind_dot_from(s, Len(s))

\* PurePath.suffix of a file name: from the last dot, unless the dot is the
\* first or the last character
suffix(name) ==
    LET i == rfind_dot(name)
    IN IF 1 < i /\ i < Len(name) THEN SubSeq(name, i, Len(name)) ELSE ""

\* PurePath.stem
stem(name) ==
    LET i == rfind_dot(name)
    IN IF 1 < i /\ i < Len(name) THEN SubSeq(name, 1, i - 1) ELSE name

\* PurePath.with_suffix(ext)
with_suffix(name, ext) ==
    SubSeq(name, 1, Len(name) - Len(suffix(name))) \o ext

-----------------------------------------------------------------------------
(* Values of a loaded record *)

\* a Python str
Str(t) == [kind |-> "str", text |-> t]
\* a Python or NumPy scalar
Num(d) == [kind |-> "num", dtype |-> "float64", data |-> d]
\* an ndarray that is not a one-element object array
Arr(shp, dt, d) == [kind |-> "arr", shape |-> shp, dtype |-> dt, data |-> d]
\* a dict, in iteration order
Map(e) == [kind |-> "map", entries |-> e]
\* a list
Lst(i) == [kind |-> "seq", items |-> i]
\* an ndarray of dtype object holding exactly one element
Box(shp, e) == [kind |-> "box", shape |-> shp, elem |-> e]

\* arr.size
RECURSIVE size(_)
size(shp) == IF shp = <<>> THEN 1 ELSE Head(shp) * size(Tail(shp))

\* the width numpy gives a str array: the string's length, at least 1
str_dtype(t) == "<U" \o str_int(IF Len(t) = 0 THEN 1 ELSE Len(t))

\* np.asarray(value) for a value that is no dict and no list
np_asarray(value) ==
    CASE value.kind = "str" ->
            [shape |-> <<>>, dtype |-> str_dtype(value.text), data |-> value.text]
      [] value.kind = "num" ->
            [shape |-> <<>>, dtype |-> value.dtype, data |-> value.data]
      [] value.kind = "arr" ->
            [shape |-> value.shape, dtype |-> value.dtype, data |-> value.data]
      [] value.kind = "box" ->
            [shape |-> value.shape, dtype |-> "object", data |-> "object"]

\* isinstance(value, Mapping)
is_mapping(value) == value.kind = "map"
\* isinstance(value, str)
is_str(value) == value.kind = "str"
\* isinstance(value, Sequence) and not isinstance(value, (bytes, bytearray, np.ndarray, str))
is_sequence(value) == value.kind = "seq"

-----------------------------------------------------------------------------
(* flatten_value *)

\* the mappings flatten_value works on, and the exception it raised if any
NewMappings == [flat |-> <<>>, shapes |-> <<>>, exc |-> "none"]

\* flat[name] = arr; shapes[name] = {"shape": arr.shape, "dtype": str(arr.dtype)}
store(name, arr, st) ==
    [st EXCEPT !.flat = (name :> arr) @@ st.flat,
               !.shapes = (name :> [shape |-> arr.shape, dtype |-> arr.dtype]) @@ st.shapes]

\* the tail of flatten_value: raise on a key already in flat, store otherwise
checked_store(name, arr, st) ==
    IF name \in DOMAIN st.flat
    THEN [st EXCEPT !.exc = "ValueError"]
    ELSE store(name, arr, st)

\* the str branch with the shape entry forgotten
store_str_without_shape(name, value, st) ==
    [st EXCEPT !.flat = (name :> np_asarray(value)) @@ st.flat]

\* the str branch of flatten_value
store_str(name, value, st) == store(name, np_asarray(value), st)

\* the key of a dict entry below name
map_key(name, sub_key) == IF name # "" THEN name \o "_" \o sub_key ELSE sub_key

\* list positions counted from one
seq_key_one_based(name, idx) == name \o "_" \o str_int(idx + 1)

\* the key of the list element at the zero-based position idx below name
seq_key(name, idx) == name \o "_" \o str_int(idx)

RECURSIVE flatten_value(_, _, _), flatten_entries(_, _, _, _), flatten_items(_, _, _, _)

\* for sub_key, sub_val in value.items(): from the i-th entry on
flatten_entries(name, entries, i, st) ==
    IF i > Len(entries) \/ st.exc # "none" THEN st
    ELSE flatten_entries(name, entries, i + 1,
            flatten_value(map_key(name, entries[i][1]), entries[i][2], st))

\* for idx, item in enumerate(value): from the i-th item on (idx = i - 1)
flatten_items(name, items, i, st) ==
    IF i > Len(items) \/ st.exc # "none" THEN st
    ELSE flatten_items(name, items, i + 1,
            flatten_value(seq_key(name, i - 1), items[i], st))

flatten_value(name, value, st) ==
    IF is_mapping(value) THEN flatten_entries(name, value.entries, 1, st)
    ELSE IF is_str(value) THEN store_str(name, value, st)
    ELSE IF is_sequence(value) THEN flatten_items(name, value.items, 1, st)
    ELSE LET arr == np_asarray(value)
         IN IF arr.dtype = "object" /\ size(arr.shape) = 1
            THEN LET element == value.elem
                 IN IF is_mapping(element) THEN flatten_value(name, element, st)
                    ELSE IF is_str(element)
                         THEN checked_store(name, np_asarray(element), st)
                    ELSE IF is_sequence(element)
                         THEN flatten_value(name, Lst(element.items), st)
                    ELSE checked_store(name, np_asarray(element), st)
            ELSE checked_store(name, arr, st)

-----------------------------------------------------------------------------
(* convert_file *)

\* no key is treated as reserved
is_reserved_never(key) == FALSE

\* key.startswith("__")
is_reserved(key) == startswith(key, "__")

\* for key, value in raw.items(): from the i-th entry on.  acc.st are the
\* mappings, acc.passed the keys handed to flatten_value so far
RECURSIVE flatten_record(_, _, _)
flatten_record(raw, i, acc) ==
    IF i > Len(raw) \/ acc.st.exc # "none" THEN acc
    ELSE IF is_reserved(raw[i][1]) THEN flatten_record(raw, i + 1, acc)
    ELSE flatten_record(raw, i + 1,
            [st |-> flatten_value(raw[i][1], raw[i][2], acc.st),
             passed |-> Append(acc.passed, raw[i][1])])

\* np.savez_compressed(output_path, **flat): one array slot per key
savez_compressed(dir, output_path, arrays) ==
    (output_path :> [kind |-> "npz", arrays |-> arrays]) @@ dir

\* metadata_path.write_text(json.dumps({...}))
write_manifest(dir, metadata_path, input_path, output_path, now, arrays) ==
    (metadata_path :> [kind |-> "json",
                       source_file |-> input_path,
                       npz_file |-> output_path,
                       converted_at |-> now,
                       arrays |-> arrays]) @@ dir

\* convert_file with the archive saved before the empty check
convert_file_saves_first(input_path, output_path, metadata_path, raw, dir, now) ==
    LET acc == flatten_record(raw, 1, [st |-> NewMappings, passed |-> <<>>])
        st == acc.st
        saved == savez_compressed(dir, output_path, st.flat)
        out == [fs |-> dir, exc |-> st.exc, flat |-> st.flat,
                shapes |-> st.shapes, passed |-> acc.passed]
    IN IF st.exc # "none" THEN out
       ELSE IF DOMAIN st.flat = {} THEN [out EXCEPT !.exc = "RuntimeError", !.fs = saved]
       ELSE [out EXCEPT !.fs = write_manifest(saved, metadata_path, input_path,
                                              output_path, now, st.shapes)]

\* convert_file(input_path, output_path, metadata_path), where raw is what
\* loadmat(input_path) returns, dir the destination directory and now the time.
\* The result holds the directory afterwards, the exception raised ("none" when
\* it returns) and the mappings built.
convert_file(input_path, output_path, metadata_path, raw, dir, now) ==
    LET acc == flatten_record(raw, 1, [st |-> NewMappings, passed |-> <<>>])
        st == acc.st
        out == [fs |-> dir, exc |-> st.exc, flat |-> st.flat,
                shapes |-> st.shapes, passed |-> acc.passed]
    IN IF st.exc # "none" THEN out
       ELSE IF DOMAIN st.flat = {} THEN [out EXCEPT !.exc = "RuntimeError"]
       ELSE [out EXCEPT !.fs = write_manifest(
                                   savez_compressed(dir, output_path, st.flat),
                                   metadata_path, input_path, output_path, now,
                                   st.shapes)]

-----------------------------------------------------------------------------
(* The values flatten_value and convert_file are called with *)

S1 == Str("hi")
N1 == Num("1.5")
A1 == Arr(<<2>>, "float64", "v")

Leaves == {S1, N1, A1}

\* dicts and lists of terminal values
Level1 ==
    {Map(<<>>), Lst(<<>>)}
    \cup {Map(<< <<"b", l>> >>) : l \in Leaves}
    \cup {Lst(<<l>>) : l \in Leaves}
    \cup {Lst(<<N1, Num("2.5"), Num("3.5")>>),
          Map(<< <<"b", N1>>, <<"0", S1>> >>)}

\* one-element object arrays
Boxed ==
    {Box(<<>>, S1), Box(<<>>, N1), Box(<<1>>, Map(<< <<"b", N1>> >>)),
     Box(<<>>, Map(<< <<"b", S1>> >>)), Box(<<>>, Lst(<<N1>>)),
     Box(<<1>>, Lst(<<S1>>)), Box(<<>>, Box(<<>>, S1))}

\* deeper nesting, an object array of two elements
Deep ==
    {Map(<< <<"a", Map(<< <<"b", S1>> >>)>> >>),
     Lst(<<Map(<< <<"b", N1>> >>), Lst(<<A1>>)>>),
     Map(<< <<"a", Box(<<>>, Map(<< <<"b", N1>> >>))>>, <<"a_b", N1>> >>),
     Arr(<<2>>, "object", "cells")}

Values == Leaves \cup Level1 \cup Boxed \cup Deep

\* the key prefixes flatten_value is called with
Names == {"a", "a_b", "a_0"}

\* the top-level keys of a record
TopKeys == {"a", "a_b", "a_0", "__header__"}

\* the values below a top-level key of a record handed to convert_file
RecValues ==
    Leaves
    \cup {Map(<<>>), Lst(<<>>), Map(<< <<"b", S1>> >>), Map(<< <<"b", N1>> >>),
          Lst(<<A1>>), Lst(<<S1>>), Lst(<<N1, Num("2.5"), Num("3.5")>>),
          Box(<<>>, S1), Box(<<>>, Map(<< <<"b", N1>> >>)),
          Map(<< <<"a", Map(<< <<"b", S1>> >>)>> >>)}

\* a dict has each key once
distinct_keys(raw) ==
    \A i, j \in 1..Len(raw) : i # j => raw[i][1] # raw[j][1]

Records ==
    {raw \in UNION {[1..n -> TopKeys \X RecValues] : n \in 0..MaxTop} :
        distinct_keys(raw)}

-----------------------------------------------------------------------------
(* flatten_value and convert_file called directly *)

NoConvertFile ==
    [called |-> FALSE, input |-> "", output |-> "", metadata |-> "",
     exc |-> "none", before |-> <<>>, now |-> 0]

NoCall == [name |-> "", value |-> Map(<<>>), flat |-> <<>>, shapes |-> <<>>]
NoConvert == [raw |-> <<>>, exc |-> "none", passed |-> <<>>, fs |-> <<>>]

SysOff ==
    /\ mode = "off"
    /\ args = [force |-> FALSE, dataset_name |-> "", input |-> ""]
    /\ input_exists = FALSE
    /\ listing = <<>>
    /\ fs = <<>>
    /\ fs0 = <<>>
    /\ pc = "off"
    /\ exc = "none"
    /\ files = <<>>
    /\ pos = 0
    /\ converted = 0
    /\ skipped = 0
    /\ stdout = <<>>
    /\ clock = 1
    /\ last_cf = NoConvertFile
    /\ handled = <<>>

HarnessOff ==
    /\ h_pc = "off"
    /\ flat = <<>>
    /\ shapes = <<>>
    /\ ncalls = 0
    /\ last_fv = NoCall
    /\ cv = NoConvert

InitFlatten ==
    /\ SysOff
    /\ h_pc = "idle"
    /\ flat = <<>>
    /\ shapes = <<>>
    /\ ncalls = 0
    /\ last_fv = NoCall
    /\ cv = NoConvert

\* one call flatten_value(name, value, flat, shapes) on the current mappings
FlattenCall ==
    /\ h_pc \in {"idle", "session"}
    /\ ncalls < MaxCalls
    /\ \E name \in Names, value \in Values :
          LET st == flatten_value(name, value,
                        [flat |-> flat, shapes |-> shapes, exc |-> "none"])
          IN /\ flat' = st.flat
             /\ shapes' = st.shapes
             /\ h_pc' = IF st.exc = "none" THEN "session" ELSE "raised"
             /\ last_fv' = [name |-> name, value |-> value,
                            flat |-> flat, shapes |-> shapes]
    /\ ncalls' = ncalls + 1
    /\ UNCHANGED <<cv, sys_vars>>

\* one call convert_file("in.mat", "out.npz", "out.json") into an empty directory
ConvertCall ==
    /\ h_pc = "idle"
    /\ \E raw \in Records :
          LET r == convert_file("in.mat", "out.npz", "out.json", raw, <<>>, clock)
          IN /\ cv' = [raw |-> raw, exc |-> r.exc, passed |-> r.passed, fs |-> r.fs]
             /\ flat' = r.flat
             /\ shapes' = r.shapes
    /\ h_pc' = "converted"
    /\ UNCHANGED <<ncalls, last_fv, sys_vars>>

NextFlatten == FlattenCall \/ ConvertCall

SpecFlatten == InitFlatten /\ [][NextFlatten]_vars

-----------------------------------------------------------------------------
(* The command line programs *)

\* the files a glob can match in the input directory
FileNames == {"a.mat", "b.mat", "c.mat", "b.txt"}

\* --dataset-name of the single-file program
DatasetNames == {"a", "b"}

\* what input_dir.glob(pattern) can yield: distinct paths in any order
Listings ==
    {l \in UNION {[1..n -> FileNames] : n \in 0..MaxFiles} :
        \A i, j \in 1..Len(l) : i # j => l[i] # l[j]}

\* the files that can be in the destination directory before a run
DestNames == {d \o e : d \in {"a", "b"}, e \in {".npz", ".json"}}

\* the content of a file left by an earlier conversion
OldArray == [shape |-> <<4>>, dtype |-> "float64", data |-> "old"]

OldFile(path) ==
    IF suffix(path) = ".npz"
    THEN [kind |-> "npz", arrays |-> ("old" :> OldArray)]
    ELSE [kind |-> "json", source_file |-> "old.mat",
          npz_file |-> with_suffix(path, ".npz"), converted_at |-> 0,
          arrays |-> ("old" :> [shape |-> OldArray.shape, dtype |-> OldArray.dtype])]

\* the destination directory before a run: any of the files, also one of a pair
PriorDirs == {[p \in present |-> OldFile(p)] : present \in SUBSET DestNames}

\* what loadmat can return for an input file
RecGood ==
    << <<"__header__", S1>>, <<"a", Map(<< <<"b", N1>> >>)>>,
       <<"x", Lst(<<N1, S1>>)>> >>
RecOverwrite == << <<"a_b", N1>>, <<"a", Map(<< <<"b", S1>> >>)>> >>
RecDuplicate == << <<"a_b", S1>>, <<"a", Map(<< <<"b", N1>> >>)>> >>
RecEmpty == << <<"__header__", S1>>, <<"__version__", S1>> >>

SysRecords == {RecGood, RecOverwrite, RecDuplicate, RecEmpty}

\* p.exists()
exists(dir, path) == path \in DOMAIN dir

\* the glob's own order kept
unsorted(s) == s

\* sorted(paths): insertion into the sorted rest
RECURSIVE insert_sorted(_, _)
insert_sorted(x, s) ==
    IF s = <<>> THEN <<x>>
    ELSE IF str_lt(x, Head(s)) THEN <<x>> \o s
    ELSE <<Head(s)>> \o insert_sorted(x, Tail(s))

RECURSIVE sorted(_)
sorted(s) == IF s = <<>> THEN <<>> ELSE insert_sorted(Head(s), sorted(Tail(s)))

\* destination_dir / f"{dataset_name}.npz"
output_of(dataset_name) == dataset_name \o ".npz"

\* output_path.with_suffix(".json")
metadata_of(output_path) == with_suffix(output_path, ".json")

\* skipping only when both files exist
should_skip_both(force, dir, output_path, metadata_path) ==
    ~force /\ (exists(dir, output_path) /\ exists(dir, metadata_path))

\* batch: not args.force and (output_path.exists() or metadata_path.exists())
should_skip(force, dir, output_path, metadata_path) ==
    ~force /\ (exists(dir, output_path) \/ exists(dir, metadata_path))

\* only the archive looked at
already_exists_archive_only(force, dir, output_path, metadata_path) ==
    ~force /\ exists(dir, output_path)

\* single: not args.force and some p in (output_path, metadata_path) exists
already_exists(force, dir, output_path, metadata_path) ==
    ~force /\ \E p \in {output_path, metadata_path} : exists(dir, p)

\* the exception caught and the loop continued
caught(e) == [pc |-> "loop", exc |-> "none"]

\* batch: no try/except around convert_file, its exception ends main
uncaught(e) == [pc |-> "failed", exc |-> e]

Line(l, f, n, m) == [line |-> l, file |-> f, n |-> n, m |-> m]

Call(input, output, metadata, r, before, now) ==
    [called |-> TRUE, input |-> input, output |-> output, metadata |-> metadata,
     exc |-> r.exc, before |-> before, now |-> now]

Init ==
    /\ HarnessOff
    /\ mode \in {"batch", "single"}
    /\ input_exists \in BOOLEAN
    /\ \E force \in BOOLEAN :
          \/ /\ mode = "batch"
             /\ args = [force |-> force, dataset_name |-> "", input |-> "ExpD"]
             /\ listing \in IF input_exists THEN Listings ELSE {<<>>}
          \/ /\ mode = "single"
             /\ \E d \in DatasetNames :
                   args = [force |-> force, dataset_name |-> d, input |-> "a.mat"]
             /\ listing = <<>>
    /\ fs \in PriorDirs
    /\ fs0 = fs
    /\ pc = "start"
    /\ exc = "none"
    /\ files = <<>>
    /\ pos = 0
    /\ converted = 0
    /\ skipped = 0
    /\ stdout = <<>>
    /\ clock = 1
    /\ last_cf = NoConvertFile
    /\ handled = <<>>

\* ---- convert_expd_to_npz.main ----

\* the input directory does not exist
BatchMissingDir ==
    /\ mode = "batch" /\ pc = "start"
    /\ ~input_exists
    /\ pc' = "failed"
    /\ exc' = "FileNotFoundError"
    /\ UNCHANGED <<mode, args, input_exists, listing, fs, fs0, files, pos,
                   converted, skipped, stdout, clock, last_cf, handled, h_vars>>

\* the glob matches nothing
BatchNoFiles ==
    /\ mode = "batch" /\ pc = "start"
    /\ input_exists
    /\ sorted(listing) = <<>>
    /\ pc' = "failed"
    /\ exc' = "RuntimeError"
    /\ UNCHANGED <<mode, args, input_exists, listing, fs, fs0, files, pos,
                   converted, skipped, stdout, clock, last_cf, handled, h_vars>>

\* files = sorted(glob), destination directory made, counters zeroed
BatchBegin ==
    /\ mode = "batch" /\ pc = "start"
    /\ input_exists
    /\ sorted(listing) # <<>>
    /\ files' = sorted(listing)
    /\ converted' = 0
    /\ skipped' = 0
    /\ pc' = "loop"
    /\ UNCHANGED <<mode, args, input_exists, listing, fs, fs0, exc, pos,
                   stdout, clock, last_cf, handled, h_vars>>

\* one loop iteration that skips the file
BatchSkip ==
    /\ mode = "batch" /\ pc = "loop"
    /\ pos < Len(files)
    /\ LET file_path == files[pos + 1]
           dataset_name == stem(file_path)
           output_path == output_of(dataset_name)
           metadata_path == metadata_of(output_path)
       IN /\ should_skip(args.force, fs, output_path, metadata_path)
          /\ stdout' = Append(stdout, Line("Skipping", dataset_name, 0, 0))
          /\ handled' = Append(handled, [file |-> file_path, how |-> "skipped"])
    /\ skipped' = skipped + 1
    /\ pos' = pos + 1
    /\ UNCHANGED <<mode, args, input_exists, listing, fs, fs0, pc, exc, files,
                   converted, clock, last_cf, h_vars>>

\* one loop iteration that calls convert_file; its exception is not caught
BatchConvert ==
    /\ mode = "batch" /\ pc = "loop"
    /\ pos < Len(files)
    /\ LET file_path == files[pos + 1]
           dataset_name == stem(file_path)
           output_path == output_of(dataset_name)
           metadata_path == metadata_of(output_path)
       IN /\ ~should_skip(args.force, fs, output_path, metadata_path)
          /\ \E raw \in SysRecords :
                LET r == convert_file(file_path, output_path, metadata_path,
                                      raw, fs, clock)
                IN /\ fs' = r.fs
                   /\ last_cf' = Call(file_path, output_path, metadata_path,
                                      r, fs, clock)
                   /\ IF r.exc # "none"
                      THEN /\ pc' = uncaught(r.exc).pc
                           /\ exc' = uncaught(r.exc).exc
                           /\ handled' = Append(handled,
                                  [file |-> file_path, how |-> "failed"])
                           /\ UNCHANGED <<stdout, converted>>
                      ELSE /\ stdout' = Append(stdout,
                                  Line("Converted", file_path, 0, 0))
                           /\ converted' = converted + 1
                           /\ handled' = Append(handled,
                                  [file |-> file_path, how |-> "converted"])
                           /\ UNCHANGED <<pc, exc>>
    /\ pos' = pos + 1
    /\ clock' = clock + 1
    /\ UNCHANGED <<mode, args, input_exists, listing, fs0, files, skipped, h_vars>>

\* the loop is over: the summary line
BatchFinish ==
    /\ mode = "batch" /\ pc = "loop"
    /\ pos = Len(files)
    /\ stdout' = Append(stdout, Line("Completed", "", converted, skipped))
    /\ pc' = "done"
    /\ UNCHANGED <<mode, args, input_exists, listing, fs, fs0, exc, files, pos,
                   converted, skipped, clock, last_cf, handled, h_vars>>

\* ---- convert_pinknoise_to_npz.main ----

\* the input file does not exist
SingleMissingInput ==
    /\ mode = "single" /\ pc = "start"
    /\ ~input_exists
    /\ pc' = "failed"
    /\ exc' = "FileNotFoundError"
    /\ UNCHANGED <<mode, args, input_exists, listing, fs, fs0, files, pos,
                   converted, skipped, stdout, clock, last_cf, handled, h_vars>>

\* an output exists and --force is not given
SingleExists ==
    /\ mode = "single" /\ pc = "start"
    /\ input_exists
    /\ LET output_path == output_of(args.dataset_name)
           metadata_path == metadata_of(output_path)
       IN already_exists(args.force, fs, output_path, metadata_path)
    /\ pc' = "failed"
    /\ exc' = "FileExistsError"
    /\ UNCHANGED <<mode, args, input_exists, listing, fs, fs0, files, pos,
                   converted, skipped, stdout, clock, last_cf, handled, h_vars>>

\* convert_file and the two lines printed after it
SingleConvert ==
    /\ mode = "single" /\ pc = "start"
    /\ input_exists
    /\ LET output_path == output_of(args.dataset_name)
           metadata_path == metadata_of(output_path)
       IN /\ ~already_exists(args.force, fs, output_path, metadata_path)
          /\ \E raw \in SysRecords :
                LET r == convert_file(args.input, output_path, metadata_path,
                                      raw, fs, clock)
                IN /\ fs' = r.fs
                   /\ last_cf' = Call(args.input, output_path, metadata_path,
                                      r, fs, clock)
                   /\ IF r.exc # "none"
                      THEN /\ pc' = "failed"
                           /\ exc' = r.exc
                           /\ UNCHANGED stdout
                      ELSE /\ pc' = "done"
                           /\ stdout' = stdout \o
                                 <<Line("Wrote", output_path,
                                        Cardinality(DOMAIN r.shapes), 0),
                                   Line("Metadata", metadata_path, 0, 0)>>
                           /\ UNCHANGED exc
    /\ clock' = clock + 1
    /\ UNCHANGED <<mode, args, input_exists, listing, fs0, files, pos,
                   converted, skipped, handled, h_vars>>

Next ==
    \/ BatchMissingDir
    \/ BatchNoFiles
    \/ BatchBegin
    \/ BatchSkip
    \/ BatchConvert
    \/ BatchFinish
    \/ SingleMissingInput
    \/ SingleExists
    \/ SingleConvert

Spec == Init /\ [][Next]_vars

-----------------------------------------------------------------------------
(* Source paths of a record, for the statements about flat keys *)

\* the terminal values below a value, each with the path of dict keys and list
\* positions that leads to it; a one-element object array that wraps a dict or
\* a list stands for what it wraps
RECURSIVE Terminals(_)
Terminals(value) ==
    CASE value.kind = "map" ->
            UNION {{[path |-> <<value.entries[i][1]>> \o t.path, leaf |-> t.leaf] :
                        t \in Terminals(value.entries[i][2])} :
                   i \in 1..Len(value.entries)}
      [] value.kind = "seq" ->
            UNION {{[path |-> <<str_int(i - 1)>> \o t.path, leaf |-> t.leaf] :
                        t \in Terminals(value.items[i])} :
                   i \in 1..Len(value.items)}
      [] value.kind = "box" /\ value.elem.kind \in {"map", "seq"} ->
            Terminals(value.elem)
      [] OTHER -> {[path |-> <<>>, leaf |-> value]}

\* the terminal values of a record, below its top-level keys that are not reserved
RecordTerminals(raw) ==
    UNION {{[path |-> <<raw[i][1]>> \o t.path, leaf |-> t.leaf] :
                t \in Terminals(raw[i][2])} :
           i \in {j \in 1..Len(raw) : ~startswith(raw[j][1], "__")}}

\* the steps of a path joined with underscores
RECURSIVE JoinPath(_)
JoinPath(path) ==
    IF Len(path) = 1 THEN path[1]
    ELSE path[1] \o "_" \o JoinPath(Tail(path))

\* two distinct source paths of the record join to the same flat key
Collides(raw) ==
    \E t, u \in RecordTerminals(raw) :
        t.path # u.path /\ JoinPath(t.path) = JoinPath(u.path)

\* a one-element object array occurs in the value
RECURSIVE HasBox(_)
HasBox(value) ==
    CASE value.kind = "map" ->
            \E i \in 1..Len(value.entries) : HasBox(value.entries[i][2])
      [] value.kind = "seq" ->
            \E i \in 1..Len(value.items) : HasBox(value.items[i])
      [] value.kind = "box" -> TRUE
      [] OTHER -> FALSE

RecordHasBox(raw) == \E i \in 1..Len(raw) : HasBox(raw[i][2])

-----------------------------------------------------------------------------
(* Statements about flatten_value and convert_file, under SpecFlatten *)

\* C1: a record in which two distinct source paths flatten to the same flat
\* key makes convert_file fail with the duplicate-key ValueError and write
\* nothing, whatever the kinds of the two values and their order.
C1_CollisionIsFatal ==
    (h_pc = "converted" /\ Collides(cv.raw)) =>
        (cv.exc = "ValueError" /\ cv.fs = <<>>)

\* C6: the shape mapping has the key set of the flat mapping and records the
\* shape and dtype of the array stored under each key, after any sequence of
\* flatten_value calls; and every key of a written manifest is in the written
\* archive with the recorded shape and dtype.
C6_ManifestAgreesWithArchive ==
    /\ DOMAIN shapes = DOMAIN flat
    /\ \A k \in DOMAIN flat :
          shapes[k] = [shape |-> flat[k].shape, dtype |-> flat[k].dtype]
    /\ "out.json" \in DOMAIN cv.fs =>
          /\ "out.npz" \in DOMAIN cv.fs
          /\ \A k \in DOMAIN cv.fs["out.json"].arrays :
                /\ k \in DOMAIN cv.fs["out.npz"].arrays
                /\ cv.fs["out.json"].arrays[k].shape = cv.fs["out.npz"].arrays[k].shape
                /\ cv.fs["out.json"].arrays[k].dtype = cv.fs["out.npz"].arrays[k].dtype

\* a pair was written whose archive holds a string array and a float array,
\* and a string was stored over an earlier array of another dtype
C6_Witness ==
    /\ h_pc = "converted"
    /\ "out.json" \in DOMAIN cv.fs
    /\ \E k, m \in DOMAIN cv.fs["out.npz"].arrays :
          /\ cv.fs["out.npz"].arrays[k].dtype = "<U2"
          /\ cv.fs["out.npz"].arrays[m].dtype = "float64"
    /\ Collides(cv.raw)

\* C7: for a record of dicts, lists and terminal values in which no two paths
\* join to the same string, the flat keys are exactly the underscore-joined
\* paths of the terminal values, one key per terminal value, holding that
\* value's array; empty dicts and lists give no key.
C7_KeyNaming ==
    (h_pc = "converted" /\ ~RecordHasBox(cv.raw) /\ ~Collides(cv.raw)) =>
        /\ cv.exc # "ValueError"
        /\ DOMAIN flat = {JoinPath(t.path) : t \in RecordTerminals(cv.raw)}
        /\ Cardinality(DOMAIN flat) = Cardinality(RecordTerminals(cv.raw))
        /\ \A t \in RecordTerminals(cv.raw) :
              flat[JoinPath(t.path)] = np_asarray(t.leaf)

\* a list of three scalars under "a" and a nested dict under "a_b"
C7_Witness ==
    /\ h_pc = "converted"
    /\ ~RecordHasBox(cv.raw)
    /\ ~Collides(cv.raw)
    /\ DOMAIN flat = {"a_0", "a_1", "a_2", "a_b_a_b"}

\* C8: reserved top-level keys (starting with "__") are never handed to
\* flatten_value and give no flat key; a record that yields no array makes
\* convert_file fail with the empty-result RuntimeError, nothing written.
C8_EmptyInput ==
    h_pc = "converted" =>
        /\ \A i \in 1..Len(cv.passed) : ~startswith(cv.passed[i], "__")
        /\ \A k \in DOMAIN flat : ~startswith(k, "__")
        /\ (cv.exc # "ValueError" /\ RecordTerminals(cv.raw) = {}) =>
              (cv.exc = "RuntimeError" /\ cv.fs = <<>>)
        /\ (\A i \in 1..Len(cv.raw) : startswith(cv.raw[i][1], "__")) =>
              (cv.exc = "RuntimeError" /\ cv.passed = <<>>)
        /\ cv.exc = "RuntimeError" => DOMAIN flat = {}

\* a record whose only key is reserved failed as empty
C8_Witness ==
    /\ h_pc = "converted"
    /\ Len(cv.raw) = 1
    /\ cv.raw[1][1] = "__header__"
    /\ cv.raw[1][2] = N1
    /\ cv.exc = "RuntimeError"

\* C9: flattening a one-element object array that wraps a dict, a str or a
\* list has the outcome of flattening the wrapped value under the same name
\* on the same mappings.
C9_UnwrapTransparent ==
    (/\ h_pc \in {"session", "raised"}
     /\ last_fv.value.kind = "box"
     /\ last_fv.value.elem.kind \in {"map", "str", "seq"}) =>
        LET direct == flatten_value(last_fv.name, last_fv.value.elem,
                          [flat |-> last_fv.flat, shapes |-> last_fv.shapes,
                           exc |-> "none"])
        IN /\ direct.flat = flat
           /\ direct.shapes = shapes
           /\ (direct.exc = "none") <=> (h_pc = "session")

-----------------------------------------------------------------------------
(* Statements about the two programs, under Spec *)

\* the paths a batch file is converted to
ArchiveOf(file) == stem(file) \o ".npz"
ManifestOf(file) == stem(file) \o ".json"

\* C2: a convert_file call that fails has left the directory as it was; one
\* that returns has written the archive and the manifest, both, and no other
\* file.
C2_FailureWritesNothing ==
    last_cf.called =>
        /\ last_cf.exc # "none" => fs = last_cf.before
        /\ last_cf.exc = "none" =>
              /\ last_cf.output \in DOMAIN fs
              /\ last_cf.metadata \in DOMAIN fs
              /\ fs[last_cf.output].kind = "npz"
              /\ fs[last_cf.metadata] =
                    [kind |-> "json", source_file |-> last_cf.input,
                     npz_file |-> last_cf.output, converted_at |-> last_cf.now,
                     arrays |-> [k \in DOMAIN fs[last_cf.output].arrays |->
                                   [shape |-> fs[last_cf.output].arrays[k].shape,
                                    dtype |-> fs[last_cf.output].arrays[k].dtype]]]
              /\ DOMAIN fs = DOMAIN last_cf.before
                                \cup {last_cf.output, last_cf.metadata}
              /\ \A p \in DOMAIN last_cf.before \ {last_cf.output, last_cf.metadata} :
                    fs[p] = last_cf.before[p]

\* a forced conversion over an existing pair failed as empty
C2_Witness ==
    /\ last_cf.called
    /\ args.force
    /\ last_cf.exc = "RuntimeError"
    /\ last_cf.output \in DOMAIN last_cf.before
    /\ last_cf.metadata \in DOMAIN last_cf.before

\* C3: without --force no file that existed before the run is changed; the
\* single-file program aborts with FileExistsError when the archive or the
\* manifest exists (its input being there), writing nothing; the batch program
\* skips every file whose archive or manifest existed and leaves both paths as
\* they were.
C3_ExistingOutputsUntouched ==
    ~args.force =>
        /\ \A p \in DOMAIN fs0 : p \in DOMAIN fs /\ fs[p] = fs0[p]
        /\ (/\ mode = "single" /\ pc # "start"
            /\ \/ (args.dataset_name \o ".npz") \in DOMAIN fs0
               \/ (args.dataset_name \o ".json") \in DOMAIN fs0) =>
              /\ pc = "failed"
              /\ input_exists => exc = "FileExistsError"
              /\ fs = fs0
              /\ ~last_cf.called
        /\ mode = "batch" =>
              \A k \in 1..Len(handled) :
                 LET a == ArchiveOf(handled[k].file)
                     m == ManifestOf(handled[k].file)
                 IN (a \in DOMAIN fs0 \/ m \in DOMAIN fs0) =>
                       /\ handled[k].how = "skipped"
                       /\ (a \in DOMAIN fs) <=> (a \in DOMAIN fs0)
                       /\ (m \in DOMAIN fs) <=> (m \in DOMAIN fs0)

\* the single-file program refused to run over a lone manifest
C3_Witness ==
    /\ mode = "single"
    /\ ~args.force
    /\ input_exists
    /\ args.dataset_name = "a"
    /\ "a.json" \in DOMAIN fs0
    /\ "a.npz" \notin DOMAIN fs0
    /\ pc = "failed"
    /\ exc = "FileExistsError"

\* an output of the k-th file handled existed when the loop reached it: it was
\* there before the run, or an earlier file of the same dataset name was converted
ExistedWhenReached(k) ==
    \/ ArchiveOf(handled[k].file) \in DOMAIN fs0
    \/ ManifestOf(handled[k].file) \in DOMAIN fs0
    \/ \E j \in 1..(k - 1) :
          /\ handled[j].how = "converted"
          /\ stem(handled[j].file) = stem(handled[k].file)

HandledAs(how) == {k \in 1..Len(handled) : handled[k].how = how}

\* C4: in a batch run that completes every matched file is counted once,
\* skipped if --force is unset and one of its outputs exists when it is
\* reached and converted otherwise; the summary's counts add up to the number
\* of matched files, and skipped is 0 under --force.
C4_SkipAccounting ==
    (mode = "batch" /\ pc = "done") =>
        /\ Len(handled) = Len(listing)
        /\ \A i \in 1..Len(listing) :
              Cardinality({k \in 1..Len(handled) : handled[k].file = listing[i]}) = 1
        /\ \A k \in 1..Len(handled) :
              /\ handled[k].how \in {"skipped", "converted"}
              /\ handled[k].how = "skipped" <=>
                    (~args.force /\ ExistedWhenReached(k))
        /\ stdout[Len(stdout)] =
              Line("Completed", "", Cardinality(HandledAs("converted")),
                   Cardinality(HandledAs("skipped")))
        /\ stdout[Len(stdout)].n + stdout[Len(stdout)].m = Len(listing)
        /\ args.force => stdout[Len(stdout)].m = 0

\* three files matched, one with its outputs in place: converted=2, skipped=1
C4_Witness ==
    /\ mode = "batch"
    /\ pc = "done"
    /\ ~args.force
    /\ Len(listing) = 3
    /\ {"b.npz", "b.json"} \subseteq DOMAIN fs0
    /\ stdout[Len(stdout)] = Line("Completed", "", 2, 1)

\* C5: the loop reaches the matched files in sorted order whatever order the
\* glob yields them in: when a file is reached, every matched file that sorts
\* before it has been reached already.
C5_SortedOrder ==
    mode = "batch" =>
        \A k \in 1..Len(handled) :
           /\ \E i \in 1..Len(listing) : listing[i] = handled[k].file
           /\ \A i \in 1..Len(listing) :
                 str_lt(listing[i], handled[k].file) =>
                    \E j \in 1..(k - 1) : handled[j].file = listing[i]

\* the glob yielded b, a, c and the loop reached a, b, c
C5_Witness ==
    /\ mode = "batch"
    /\ listing = <<"b.mat", "a.mat", "c.mat">>
    /\ Len(handled) = 3
    /\ handled[1].file = "a.mat"
    /\ handled[3].file = "c.mat"

\* C10: when convert_file fails on a matched file the batch ends there: the
\* run has failed with that exception, nothing more can happen, no later file
\* has been reached, no summary has been printed, and the pairs written for
\* the files converted before it are in place.
C10_NoErrorIsolation ==
    (mode = "batch" /\ last_cf.called /\ last_cf.exc # "none") =>
        /\ pc = "failed"
        /\ exc = last_cf.exc
        /\ ~ENABLED Next
        /\ Len(handled) = pos
        /\ handled[pos] = [file |-> last_cf.input, how |-> "failed"]
        /\ files[pos] = last_cf.input
        /\ \A k \in (pos + 1)..Len(files) :
              \A j \in 1..Len(handled) : handled[j].file # files[k]
        /\ \A i \in 1..Len(stdout) : stdout[i].line # "Completed"
        /\ \A k \in 1..(pos - 1) :
              handled[k].how = "converted" =>
                 /\ ArchiveOf(handled[k].file) \in DOMAIN fs
                 /\ ManifestOf(handled[k].file) \in DOMAIN fs
                 /\ fs[ManifestOf(handled[k].file)].converted_at >= 1

\* the second of three files failed after the first was converted
C10_Witness ==
    /\ mode = "batch"
    /\ pc = "failed"
    /\ last_cf.called
    /\ last_cf.exc = "ValueError"
    /\ Len(files) = 3
    /\ pos = 2
    /\ handled[1].how = "converted"

====
